---- MODULE Spec2Model ----
(***************************************************************************)
(* A model of conman, a bounded-concurrency task runner (src/conman.go,    *)
(* src/retry.go).  One ConMan instance, its callers' Run and Wait calls,   *)
(* and one goroutine per admitted task (executeTask and its retry loop).   *)
(***************************************************************************)
EXTENDS Integers, Sequences, FiniteSets, TLC

\* concurrencyLimit handed to New (src/conman.go:70); New rejects values < 2.
Limit == 2

\* Number of Run calls issued; one more than the limit, so that one of them
\* finds the gate full.
NTasks == Limit + 1

Tasks == 1..NTasks

VARIABLES
    pc,              \* pc[i]: where the Run call / goroutine of task i stands
    calls,           \* calls[i]: number of t.Execute calls made so far for task i
    timerFired,      \* timerFired[i]: the retry timer of task i has expired
    script,          \* script[i]: what task i's Execute returns, call after call
    buffer,          \* number of items in c.buffer (reserved slots)
    wg,              \* the counter of c.wg
    outputs,         \* c.outputs, entries <<task, value>>
    errors,          \* c.errors, entries <<task, error>>
    ctxDone,         \* the context handed to Run has been cancelled
    waitPc,          \* where the Wait call stands
    waitSeen,        \* tasks whose Run had returned nil when Wait was called; once Wait
                     \* has returned an error, those of them that had no outcome yet
    blockedAtCancel, \* Run calls that were blocked on a full buffer at cancellation
    runRet,          \* runRet[i]: what the Run call of task i has returned
    call,            \* the last call of New, validate, a preset, WithRetryConfig or calculateDelay
    mu,              \* c.mu: the execution units between its Lock and its Unlock
    mem,             \* the slices c.outputs and c.errors and their backing arrays
    local,           \* local[i]: what the goroutine of task i appends, and the slice it has read
    reader           \* a caller of Outputs() and Errors(): its call (field), and the slice
                     \* it was returned last (of the field `of`)

vars == <<pc, calls, timerFired, script, buffer, wg, outputs, errors,
          ctxDone, waitPc, waitSeen, blockedAtCancel, runRet, call, mu, mem, local, reader>>

----------------------------------------------------------------------------
\* RetryConfig (src/retry.go:10-16) and the three presets.

NoConfig == [MaxAttempts |-> 0, InitialDelay |-> 0, BackoffFactor |-> 0,
             MaxDelay |-> 0, Jitter |-> FALSE, nil |-> TRUE]

RetryConfig(m, d, f, x, j) ==
    [MaxAttempts |-> m, InitialDelay |-> d, BackoffFactor |-> f,
     MaxDelay |-> x, Jitter |-> j, nil |-> FALSE]

WithExponentialBackoff == RetryConfig(5, 100, 2, 5000, TRUE)

WithLinearBackoff == RetryConfig(5, 200, 1, 2000, FALSE)

\* WithNoBackoff with a delay between the retries.
WithNoBackoff_Delayed == RetryConfig(3, 10, 0, 0, FALSE)

WithNoBackoff == RetryConfig(3, 0, 0, 0, FALSE)

\* Two custom configurations that pass validate, attached with WithRetryConfig.
CustomOnce == RetryConfig(1, 10, 2, 20, FALSE)

CustomTwice == RetryConfig(2, 10, 3, 20, FALSE)

\* Largest value of an argument of New and of a field of a hand-built RetryConfig.
MaxField == 3

\* The arguments handed to New.
Ints == (0 - MaxField)..MaxField

\* Hand-built configurations: every combination of small field values, the
\* negative and the zero ones included (BackoffFactor over the integers).
Configs ==
    { RetryConfig(m, d, f, x, j) :
        m \in (0 - 1)..MaxField, d \in (0 - 1)..MaxField, f \in (0 - 1)..MaxField,
        x \in (0 - 1)..MaxField, j \in BOOLEAN }

\* validate without its last check.
validate_NoZeroFactorCheck(rc) ==
    IF rc.MaxAttempts <= 0 THEN "MaxAttempts must be positive"
    ELSE IF rc.InitialDelay < 0 THEN "InitialDelay cannot be negative"
    ELSE IF rc.MaxDelay < 0 THEN "MaxDelay cannot be negative"
    ELSE IF rc.MaxDelay > 0 /\ rc.InitialDelay > rc.MaxDelay
         THEN "InitialDelay cannot be greater than MaxDelay"
    ELSE IF rc.BackoffFactor < 0 THEN "BackoffFactor cannot be negative"
    ELSE "nil"

\* RetryConfig.validate: the error of the first check that fails, in the
\* code's order, or nil.
validate(rc) ==
    IF rc.MaxAttempts <= 0 THEN "MaxAttempts must be positive"
    ELSE IF rc.InitialDelay < 0 THEN "InitialDelay cannot be negative"
    ELSE IF rc.MaxDelay < 0 THEN "MaxDelay cannot be negative"
    ELSE IF rc.MaxDelay > 0 /\ rc.InitialDelay > rc.MaxDelay
         THEN "InitialDelay cannot be greater than MaxDelay"
    ELSE IF rc.BackoffFactor < 0 THEN "BackoffFactor cannot be negative"
    ELSE IF rc.BackoffFactor = 0 /\ rc.InitialDelay > 0 /\ rc.MaxAttempts > 1
         THEN "BackoffFactor of 0.0 with non-zero InitialDelay"
    ELSE "nil"

\* New rejecting only a limit below 1.
New_AtLeastOne(concurrencyLimit) ==
    IF concurrencyLimit < 1
    THEN [mgr |-> "nil", err |-> "concurrencyLimit must be at least 2"]
    ELSE [mgr |-> "ConMan", err |-> "nil"]

\* New: no manager and an error for a limit below 2, else a manager.
New(concurrencyLimit) ==
    IF concurrencyLimit < 2
    THEN [mgr |-> "nil", err |-> "concurrencyLimit must be at least 2"]
    ELSE [mgr |-> "ConMan", err |-> "nil"]

\* WithRetryConfig attaching the configuration before it validates it.
WithRetryConfig_AttachFirst(recv, config) ==
    IF validate(config) # "nil"
    THEN [ret |-> "nil", err |-> validate(config), RetryConfig |-> config]
    ELSE [ret |-> "e", err |-> "nil", RetryConfig |-> config]

\* e.WithRetryConfig(config), e.RetryConfig being recv at the call: what it
\* returns and e.RetryConfig after the call.
WithRetryConfig(recv, config) ==
    IF validate(config) # "nil"
    THEN [ret |-> "nil", err |-> validate(config), RetryConfig |-> recv]
    ELSE [ret |-> "e", err |-> "nil", RetryConfig |-> config]

RECURSIVE Pow(_, _)
Pow(b, e) == IF e = 0 THEN 1 ELSE b * Pow(b, e - 1)

\* A delay that is never replaced by MaxDelay.
CappedDelay_Uncapped(attempt, config) ==
    config.InitialDelay * Pow(config.BackoffFactor, attempt)

\* A delay that grows by InitialDelay with every attempt.
CappedDelay_Additive(attempt, config) ==
    LET delay == config.InitialDelay * (attempt + 1)
    IN  IF delay > config.MaxDelay THEN config.MaxDelay ELSE delay

\* calculateDelay before jitter: InitialDelay * BackoffFactor^attempt, replaced
\* by MaxDelay whenever it is larger than MaxDelay.
CappedDelay(attempt, config) ==
    LET delay == config.InitialDelay * Pow(config.BackoffFactor, attempt)
    IN  IF delay > config.MaxDelay THEN config.MaxDelay ELSE delay

\* The delays calculateDelay can return: with jitter the capped delay is
\* multiplied by a random factor of [0,1) and truncated.
calculateDelay(attempt, config) ==
    LET delay == CappedDelay(attempt, config)
    IN  IF config.Jitter /\ delay > 0 THEN 0..(delay - 1) ELSE {delay}

----------------------------------------------------------------------------
\* Tasks.  What Execute returns is fixed per task by a script: the outcome of
\* call n is the n-th element, the last element repeating.

Ok == [kind |-> "ok", cfg |-> NoConfig]

Plain == [kind |-> "plain", cfg |-> NoConfig]

Retriable(config) == [kind |-> "retriable", cfg |-> config]

\* slowdoubler of the tests: the context's error when it is cancelled, a value otherwise
CtxAware == [kind |-> "ctxaware", cfg |-> NoConfig]

\* Scripts of the tasks of the tests: doubler, errdoubler, slowdoubler.
SimpleScripts == { <<Ok>>, <<Plain>>, <<CtxAware>> }

\* A task that fails with a RetriableError at every call.
AlwaysRetriable == { <<Retriable(c)>> : c \in {NoConfig, WithNoBackoff, CustomOnce, CustomTwice} }

\* flakydoubler of the tests: k failures with a RetriableError, then a value.
Flaky ==
    { <<Retriable(CustomOnce), Ok>>,
      <<Retriable(CustomTwice), Ok>>,
      <<Retriable(CustomTwice), Retriable(CustomTwice), Ok>>,
      <<Retriable(WithNoBackoff), Retriable(WithNoBackoff),
        Retriable(WithNoBackoff), Ok>>,
      <<Retriable(WithExponentialBackoff), Retriable(WithExponentialBackoff), Ok>> }

\* A retry attempt that fails with a plain error, or with another policy.
Mixed ==
    { <<Retriable(CustomTwice), Plain>>,
      <<Retriable(CustomTwice), Retriable(WithNoBackoff)>> }

Scripts == SimpleScripts \cup AlwaysRetriable \cup Flaky \cup Mixed

\* The scripts of the batches run together with Wait.
BasicScripts == { <<Ok>>, <<Plain>>, <<Retriable(CustomOnce)>> }

\* The behaviour shared by the other tasks of a batch.
Background == { <<Ok>>, <<Plain>> }

Outcome(i, n) ==
    LET s == script[i]
    IN  IF n <= Len(s) THEN s[n] ELSE s[Len(s)]

\* The value and the error a call returns.
Value(i) == 2 * i

TaskErr(i, n) == [src |-> "task", task |-> i, call |-> n, kind |-> Outcome(i, n).kind]

CtxErr == [src |-> "ctx", task |-> 0, call |-> 0, kind |-> "canceled"]

\* What a Run call has returned: nothing yet, or a nil error.
NotReturned == [src |-> "none", task |-> 0, call |-> 0, kind |-> "none"]

NilError == [src |-> "nil", task |-> 0, call |-> 0, kind |-> "nil"]

\* No call of a function of the package has been made.
NoCall == [fn |-> "none"]

\* (value or error) of call n of task i, given the context's state at its return
Execute(i, n) ==
    LET o == Outcome(i, n)
    IN  CASE o.kind = "ok" -> [ok |-> TRUE, val |-> Value(i), err |-> CtxErr, cfg |-> NoConfig, retriable |-> FALSE]
          [] o.kind = "ctxaware" ->
                IF ctxDone
                THEN [ok |-> FALSE, val |-> 0 - 1, err |-> CtxErr, cfg |-> NoConfig, retriable |-> FALSE]
                ELSE [ok |-> TRUE, val |-> Value(i), err |-> CtxErr, cfg |-> NoConfig, retriable |-> FALSE]
          [] o.kind = "plain" -> [ok |-> FALSE, val |-> 0 - 1, err |-> TaskErr(i, n), cfg |-> NoConfig, retriable |-> FALSE]
          [] OTHER -> [ok |-> FALSE, val |-> 0 - 1, err |-> TaskErr(i, n), cfg |-> o.cfg, retriable |-> TRUE]

----------------------------------------------------------------------------
\* Slices.  A slice is a header (backing array, length, capacity); the arrays
\* a field has had are kept, numbered in the order of their allocation, as a
\* slice handed out earlier may still point to an old one.

\* The zero value of an array cell that no append has written.
Zero == <<0, 0>>

\* A nil slice.
NilSlice == [arr |-> 0, len |-> 0, cap |-> 0]

\* make([]T, 0, n): an empty slice over a new array of n cells.
MakeSlice(n) ==
    [arr |-> 1, len |-> 0, cap |-> n, arrays |-> <<[k \in 1..n |-> Zero]>>]

\* The header of the slice stored in a field.
Header(m) == [arr |-> m.arr, len |-> m.len, cap |-> m.cap]

\* The elements a holder of slice h sees, the arrays being as in field m.
Elems(h, m) == [k \in 1..h.len |-> m.arrays[h.arr][k]]

\* The capacity append gives the new array when the old one is full.
Grow(cap) == IF cap = 0 THEN 1 ELSE 2 * cap

\* The variant: an append that never allocates, and writes the last cell of a
\* full array again.
AppendSlice_NoGrowth(h, m, v) ==
    IF h.len < h.cap
    THEN [arr |-> h.arr, len |-> h.len + 1, cap |-> h.cap,
          arrays |-> [m.arrays EXCEPT ![h.arr][h.len + 1] = v]]
    ELSE IF h.cap = 0
    THEN [arr |-> Len(m.arrays) + 1, len |-> 1, cap |-> 1,
          arrays |-> Append(m.arrays, <<v>>)]
    ELSE [arr |-> h.arr, len |-> h.len, cap |-> h.cap,
          arrays |-> [m.arrays EXCEPT ![h.arr][h.len] = v]]

\* append(h, v), h being the slice read from field m: v is written after the
\* last element, in place when the capacity allows it, else in a new array that
\* receives a copy of the elements.  The result is the field's new value.
AppendSlice(h, m, v) ==
    IF h.len < h.cap
    THEN [arr |-> h.arr, len |-> h.len + 1, cap |-> h.cap,
          arrays |-> [m.arrays EXCEPT ![h.arr][h.len + 1] = v]]
    ELSE [arr |-> Len(m.arrays) + 1, len |-> h.len + 1, cap |-> Grow(h.cap),
          arrays |-> Append(m.arrays,
                            [k \in 1..Grow(h.cap) |->
                                IF k <= h.len THEN m.arrays[h.arr][k]
                                ELSE IF k = h.len + 1 THEN v ELSE Zero])]

\* The goroutine of a task has nothing to append yet.
NoLocal == [field |-> "none", val |-> Zero, slice |-> NilSlice]

----------------------------------------------------------------------------
\* The state New returns (src/conman.go:74-78), before any Run or Wait call.
Fresh ==
    /\ pc = [i \in Tasks |-> "idle"]
    /\ calls = [i \in Tasks |-> 0]
    /\ timerFired = [i \in Tasks |-> FALSE]
    /\ buffer = 0
    /\ wg = 0
    /\ outputs = <<>>
    /\ errors = <<>>
    /\ ctxDone = FALSE
    /\ waitPc = "idle"
    /\ waitSeen = {}
    /\ blockedAtCancel = {}
    /\ runRet = [i \in Tasks |-> NotReturned]
    /\ call = NoCall
    /\ mu = {}
    /\ mem = [outputs |-> MakeSlice(Limit), errors |-> MakeSlice(0)]
    /\ local = [i \in Tasks |-> NoLocal]
    /\ reader = [pc |-> "idle", field |-> "outputs", of |-> "outputs", slice |-> NilSlice]

\* A batch: the tasks handed to Run, all of one background behaviour but task 1
\* (Run calls are concurrent, so which task differs does not matter).
Batch(fg) ==
    \E b \in Background, s \in fg :
        script = [i \in Tasks |-> IF i = 1 THEN s ELSE b]

Init == Fresh /\ Batch(BasicScripts \cup Background)

InitRetry == Fresh /\ Batch(Scripts)

\* Retry chains without a policy, without a delay and with one.
LiveScripts ==
    { <<Retriable(NoConfig)>>,
      <<Retriable(WithNoBackoff)>>,
      <<Retriable(CustomOnce), Ok>> }

\* A batch of one retry chain, one failing task and succeeding ones.
InitLive ==
    /\ Fresh
    /\ \E s \in LiveScripts :
          script = [i \in Tasks |-> IF i = 1 THEN s
                                    ELSE IF i = 2 THEN <<Plain>> ELSE <<Ok>>]

\* Run has returned nil for task i: the task was handed to its goroutine.
Admitted(i) == pc[i] \in {"exec", "wait", "parked", "retry", "finish", "releasing", "done"}

\* Task i has its terminal outcome: executeTask has returned.
Terminal(i) == pc[i] \in {"finish", "releasing", "done"}

\* Task i holds one item of c.buffer.
HoldsSlot(i) == pc[i] \in {"adding", "exec", "wait", "parked", "retry", "finish", "releasing"}

\* c.buffer <- nil can proceed (the variant: a channel of one item too many)
BufferHasRoom_OneTooMany == buffer <= Limit

BufferHasRoom == buffer < Limit

\* <-ctx.Done() is ready
CtxIsDone == ctxDone

\* Run without the ctx.Done case of its select.
RunSelect_NoCtxCase(i) ==
    /\ pc[i] = "idle"
    /\ pc' = [pc EXCEPT ![i] = "reserving"]
    /\ UNCHANGED <<calls, timerFired, script, buffer, wg, outputs, errors,
                   ctxDone, waitPc, waitSeen, blockedAtCancel, runRet, call, mu, mem, local, reader>>

\* Run, up to its select: the context's error when it is cancelled, else on to reserveOne.
RunSelect(i) ==
    /\ pc[i] = "idle"
    /\ pc' = [pc EXCEPT ![i] = IF CtxIsDone THEN "rejected" ELSE "reserving"]
    /\ runRet' = [runRet EXCEPT ![i] = IF CtxIsDone THEN CtxErr ELSE NotReturned]
    /\ UNCHANGED <<calls, timerFired, script, buffer, wg, outputs, errors,
                   ctxDone, waitPc, waitSeen, blockedAtCancel, call, mu, mem, local, reader>>

\* reserveOne, first statement: the send on c.buffer, blocking while it is full.
ReserveSend(i) ==
    /\ pc[i] = "reserving"
    /\ BufferHasRoom
    /\ buffer' = buffer + 1
    /\ pc' = [pc EXCEPT ![i] = "adding"]
    /\ UNCHANGED <<calls, timerFired, script, wg, outputs, errors,
                   ctxDone, waitPc, waitSeen, blockedAtCancel, runRet, call, mu, mem, local, reader>>

\* The variant: Run looks at the context once more before it returns.
ReserveAdd_ChecksCtxAgain(i) ==
    /\ pc[i] = "adding"
    /\ wg' = wg + 1
    /\ pc' = [pc EXCEPT ![i] = "exec"]
    /\ runRet' = [runRet EXCEPT ![i] = IF CtxIsDone THEN CtxErr ELSE NilError]
    /\ UNCHANGED <<calls, timerFired, script, buffer, outputs, errors,
                   ctxDone, waitPc, waitSeen, blockedAtCancel, call, mu, mem, local, reader>>

\* reserveOne, second statement, c.wg.Add(1); then Run starts the goroutine and returns nil.
ReserveAdd(i) ==
    /\ pc[i] = "adding"
    /\ wg' = wg + 1
    /\ pc' = [pc EXCEPT ![i] = "exec"]
    /\ runRet' = [runRet EXCEPT ![i] = NilError]
    /\ UNCHANGED <<calls, timerFired, script, buffer, outputs, errors,
                   ctxDone, waitPc, waitSeen, blockedAtCancel, call, mu, mem, local, reader>>

\* err.(*RetriableError): the error of result r is a *RetriableError.
IsRetriableError_Always(r) == TRUE

IsRetriableError(r) == r.retriable

\* withLock(append(c.outputs, v)); the variant overwrites the last entry, as an
\* append that raced with another one would.
RecordOutput_LostUpdate(i, v) ==
    outputs' = IF Len(outputs) = 0 THEN <<<<i, v>>>>
               ELSE [outputs EXCEPT ![Len(outputs)] = <<i, v>>]

RecordOutput(i, v) == outputs' = Append(outputs, <<i, v>>)

\* The variant: the error is appended twice.
RecordError_Twice(i, e) == errors' = Append(Append(errors, <<i, e>>), <<i, e>>)

\* The variant: the new error is put in front of the recorded ones.
RecordError_Prepend(i, e) == errors' = <<<<i, e>>>> \o errors

\* The variant: the error recorded is the one of the task's first Execute.
RecordError_FirstError(i, e) ==
    errors' = Append(errors, <<i, IF e = CtxErr THEN e ELSE TaskErr(i, 1)>>)

\* withLock(append(c.errors, e))
RecordError(i, e) == errors' = Append(errors, <<i, e>>)

\* The variant: the config of the failure at hand governs the loop.
LoopConfig_LastFailure(i) == Outcome(i, calls[i] + 1).cfg

\* The config retry was called with: the one of the first failure.
LoopConfig(i) == Outcome(i, 1).cfg

\* Entering waitForNextAttempt(attempt): a timer of the calculated delay is started;
\* a timer of zero delay has expired at once.
StartTimer(i, attempt) ==
    \E d \in calculateDelay(attempt, LoopConfig(i)) :
        timerFired' = [timerFired EXCEPT ![i] = (d = 0)]

\* executeTask: the first Execute and what follows it up to the first wait.
executeTask(i) ==
    /\ pc[i] = "exec"
    /\ calls' = [calls EXCEPT ![i] = 1]
    /\ LET r == Execute(i, 1) IN
         IF r.ok
         THEN /\ RecordOutput(i, r.val)
              /\ pc' = [pc EXCEPT ![i] = "finish"]
              /\ UNCHANGED <<errors, timerFired>>
         ELSE IF IsRetriableError(r)
              THEN IF r.cfg.nil \/ r.cfg.MaxAttempts <= 0   \* retry returns at once
                   THEN /\ pc' = [pc EXCEPT ![i] = "finish"]
                        /\ UNCHANGED <<outputs, errors, timerFired>>
                   ELSE /\ pc' = [pc EXCEPT ![i] = "wait"]
                        /\ StartTimer(i, 0)
                        /\ UNCHANGED <<outputs, errors>>
              ELSE /\ RecordError(i, r.err)
                   /\ pc' = [pc EXCEPT ![i] = "finish"]
                   /\ UNCHANGED <<outputs, timerFired>>
    /\ UNCHANGED <<script, buffer, wg, ctxDone, waitPc, waitSeen, blockedAtCancel, runRet, call, mu, mem, local, reader>>

\* The timer of waitForNextAttempt expires before the select is reached.
TimerExpires(i) ==
    /\ pc[i] = "wait"
    /\ ~timerFired[i]
    /\ timerFired' = [timerFired EXCEPT ![i] = TRUE]
    /\ UNCHANGED <<pc, calls, script, buffer, wg, outputs, errors,
                   ctxDone, waitPc, waitSeen, blockedAtCancel, runRet, call, mu, mem, local, reader>>

\* waitForNextAttempt's select finds neither channel ready: the goroutine blocks.
SelectBlocks(i) ==
    /\ pc[i] = "wait"
    /\ ~timerFired[i]
    /\ ~CtxIsDone
    /\ pc' = [pc EXCEPT ![i] = "parked"]
    /\ UNCHANGED <<calls, timerFired, script, buffer, wg, outputs, errors,
                   ctxDone, waitPc, waitSeen, blockedAtCancel, runRet, call, mu, mem, local, reader>>

\* The variant: a wait that does not watch the context (a sleep) ends with the timer.
TimerWakes_Sleep(i) ==
    /\ pc[i] = "parked"
    /\ pc' = [pc EXCEPT ![i] = "retry"]
    /\ UNCHANGED <<calls, timerFired, script, buffer, wg, outputs, errors,
                   ctxDone, waitPc, waitSeen, blockedAtCancel, runRet, call, mu, mem, local, reader>>

\* The timer expires while the goroutine is blocked in the select and the context
\* is not cancelled: the select returns with timer.C, on to the next Execute.
\* (A goroutine blocked in a select is woken by the first channel that gets
\* ready: once the context is cancelled, the timer no longer decides.)
TimerWakes(i) ==
    /\ pc[i] = "parked"
    /\ ~CtxIsDone
    /\ pc' = [pc EXCEPT ![i] = "retry"]
    /\ UNCHANGED <<calls, timerFired, script, buffer, wg, outputs, errors,
                   ctxDone, waitPc, waitSeen, blockedAtCancel, runRet, call, mu, mem, local, reader>>

\* waitForNextAttempt's select, reached with timer.C ready, takes it: on to the
\* next Execute.
WaitTimer(i) ==
    /\ pc[i] = "wait"
    /\ timerFired[i]
    /\ pc' = [pc EXCEPT ![i] = "retry"]
    /\ timerFired' = [timerFired EXCEPT ![i] = FALSE]
    /\ UNCHANGED <<calls, script, buffer, wg, outputs, errors,
                   ctxDone, waitPc, waitSeen, blockedAtCancel, runRet, call, mu, mem, local, reader>>

\* waitForNextAttempt's select takes ctx.Done (found ready, or closed while the
\* goroutine was blocked): retry breaks and records ctx.Err().
WaitCancelled(i) ==
    /\ pc[i] \in {"wait", "parked"}
    /\ CtxIsDone
    /\ RecordError(i, CtxErr)
    /\ pc' = [pc EXCEPT ![i] = "finish"]
    /\ timerFired' = [timerFired EXCEPT ![i] = FALSE]
    /\ UNCHANGED <<calls, script, buffer, wg, outputs,
                   ctxDone, waitPc, waitSeen, blockedAtCancel, runRet, call, mu, mem, local, reader>>

\* The loop of retry goes on after a failed attempt numbered `attempts`: the
\* range of the loop is 0..MaxAttempts-1 (the variants: one more, one less).
LoopContinues_OneMore(attempts, config) == attempts + 1 <= config.MaxAttempts

LoopContinues_OneLess(attempts, config) == attempts + 2 < config.MaxAttempts

LoopContinues(attempts, config) == attempts + 1 < config.MaxAttempts

\* retry: one Execute of the loop and what follows it up to the next wait.
retry(i) ==
    /\ pc[i] = "retry"
    /\ calls' = [calls EXCEPT ![i] = calls[i] + 1]
    /\ LET r == Execute(i, calls[i] + 1)
           attempts == calls[i] - 1
       IN
         IF r.ok
         THEN /\ RecordOutput(i, r.val)
              /\ pc' = [pc EXCEPT ![i] = "finish"]
              /\ UNCHANGED <<errors, timerFired>>
         ELSE IF LoopContinues(attempts, LoopConfig(i))
              THEN /\ pc' = [pc EXCEPT ![i] = "wait"]
                   /\ StartTimer(i, attempts + 1)
                   /\ UNCHANGED <<outputs, errors>>
              ELSE /\ RecordError(i, r.err)
                   /\ pc' = [pc EXCEPT ![i] = "finish"]
                   /\ UNCHANGED <<outputs, timerFired>>
    /\ UNCHANGED <<script, buffer, wg, ctxDone, waitPc, waitSeen, blockedAtCancel, runRet, call, mu, mem, local, reader>>

\* The variant: a releaseOne that leaves the wait group's counter as it is.
ReleaseDone_Skipped(i) ==
    /\ pc[i] = "finish"
    /\ pc' = [pc EXCEPT ![i] = "releasing"]
    /\ UNCHANGED <<calls, timerFired, script, buffer, wg, outputs, errors,
                   ctxDone, waitPc, waitSeen, blockedAtCancel, runRet, call, mu, mem, local, reader>>

\* releaseOne, first statement: c.wg.Done().
ReleaseDone(i) ==
    /\ pc[i] = "finish"
    /\ wg' = wg - 1
    /\ pc' = [pc EXCEPT ![i] = "releasing"]
    /\ UNCHANGED <<calls, timerFired, script, buffer, outputs, errors,
                   ctxDone, waitPc, waitSeen, blockedAtCancel, runRet, call, mu, mem, local, reader>>

\* The variant: a releaseOne that does not receive from c.buffer.
ReleaseRecv_KeepsSlot(i) ==
    /\ pc[i] = "releasing"
    /\ pc' = [pc EXCEPT ![i] = "done"]
    /\ UNCHANGED <<calls, timerFired, script, buffer, wg, outputs, errors,
                   ctxDone, waitPc, waitSeen, blockedAtCancel, runRet, call, mu, mem, local, reader>>

\* releaseOne, second statement: the receive from c.buffer.
ReleaseRecv(i) ==
    /\ pc[i] = "releasing"
    /\ buffer' = buffer - 1
    /\ pc' = [pc EXCEPT ![i] = "done"]
    /\ UNCHANGED <<calls, timerFired, script, wg, outputs, errors,
                   ctxDone, waitPc, waitSeen, blockedAtCancel, runRet, call, mu, mem, local, reader>>

\* The variant: cancellation stops the tasks that are inside Execute.
Cancel_Preemptive ==
    /\ ~ctxDone
    /\ ctxDone' = TRUE
    /\ blockedAtCancel' = {i \in Tasks : pc[i] = "reserving" /\ ~BufferHasRoom}
    /\ pc' = [i \in Tasks |-> IF pc[i] \in {"exec", "retry"} THEN "finish" ELSE pc[i]]
    /\ UNCHANGED <<calls, timerFired, script, buffer, wg, outputs, errors,
                   waitPc, waitSeen, runRet, call, mu, mem, local, reader>>

\* The context handed to Run is cancelled (cancel func or deadline).
Cancel ==
    /\ ~ctxDone
    /\ ctxDone' = TRUE
    /\ blockedAtCancel' = {i \in Tasks : pc[i] = "reserving" /\ ~BufferHasRoom}
    /\ UNCHANGED <<pc, calls, timerFired, script, buffer, wg, outputs, errors,
                   waitPc, waitSeen, runRet, call, mu, mem, local, reader>>

\* Wait is called: it starts the goroutine that runs c.wg.Wait().
WaitCall ==
    /\ waitPc = "idle"
    /\ waitPc' = "waiting"
    /\ waitSeen' = {i \in Tasks : Admitted(i)}
    /\ UNCHANGED <<pc, calls, timerFired, script, buffer, wg, outputs, errors,
                   ctxDone, blockedAtCancel, runRet, call, mu, mem, local, reader>>

\* c.wg.Wait() returning while one task is still counted.
WaitGroupZero_OneLeft ==
    /\ waitPc = "waiting"
    /\ wg <= 1
    /\ waitPc' = "closed"
    /\ UNCHANGED <<pc, calls, timerFired, script, buffer, wg, outputs, errors,
                   ctxDone, waitSeen, blockedAtCancel, runRet, call, mu, mem, local, reader>>

\* c.wg.Wait() returns, the counter being zero, and done is closed.
WaitGroupZero ==
    /\ waitPc = "waiting"
    /\ wg = 0
    /\ waitPc' = "closed"
    /\ UNCHANGED <<pc, calls, timerFired, script, buffer, wg, outputs, errors,
                   ctxDone, waitSeen, blockedAtCancel, runRet, call, mu, mem, local, reader>>

\* Wait's select takes done: Wait returns nil.
WaitReturnsNil ==
    /\ waitPc = "closed"
    /\ waitPc' = "nil"
    /\ UNCHANGED <<pc, calls, timerFired, script, buffer, wg, outputs, errors,
                   ctxDone, waitSeen, blockedAtCancel, runRet, call, mu, mem, local, reader>>

\* Wait's own context is cancelled and its select takes ctx.Done: Wait returns ctx.Err().
WaitReturnsErr ==
    /\ waitPc \in {"waiting", "closed"}
    /\ waitPc' = "err"
    /\ waitSeen' = {i \in waitSeen : ~Terminal(i)}
    /\ UNCHANGED <<pc, calls, timerFired, script, buffer, wg, outputs, errors,
                   ctxDone, blockedAtCancel, runRet, call, mu, mem, local, reader>>

\* A step of the goroutine of task i.
Goroutine(i) ==
    \/ executeTask(i)
    \/ TimerExpires(i)
    \/ SelectBlocks(i)
    \/ TimerWakes(i)
    \/ WaitTimer(i)
    \/ WaitCancelled(i)
    \/ retry(i)
    \/ ReleaseDone(i)
    \/ ReleaseRecv(i)

\* Run calls, the tasks' goroutines and cancellation.
NextRun ==
    \/ \E i \in Tasks : RunSelect(i)
    \/ \E i \in Tasks : ReserveSend(i)
    \/ \E i \in Tasks : ReserveAdd(i)
    \/ \E i \in Tasks : executeTask(i)
    \/ \E i \in Tasks : TimerExpires(i)
    \/ \E i \in Tasks : SelectBlocks(i)
    \/ \E i \in Tasks : TimerWakes(i)
    \/ \E i \in Tasks : WaitTimer(i)
    \/ \E i \in Tasks : WaitCancelled(i)
    \/ \E i \in Tasks : retry(i)
    \/ \E i \in Tasks : ReleaseDone(i)
    \/ \E i \in Tasks : ReleaseRecv(i)
    \/ Cancel

Next ==
    \/ NextRun
    \/ WaitCall
    \/ WaitGroupZero
    \/ WaitReturnsNil
    \/ WaitReturnsErr

\* Run, Wait and cancellation, over batches of basic tasks.
Spec == Init /\ [][Next]_vars

\* Run and cancellation without Wait, over batches with every retry script.
SpecRetry == InitRetry /\ [][NextRun]_vars

\* Run, Wait and cancellation over batches with every retry script.
SpecAll == InitRetry /\ [][Next]_vars

\* Run calls, the tasks' goroutines and Wait, no context ever being cancelled.
NextLive ==
    \/ \E i \in Tasks : RunSelect(i)
    \/ \E i \in Tasks : ReserveSend(i)
    \/ \E i \in Tasks : ReserveAdd(i)
    \/ \E i \in Tasks : executeTask(i)
    \/ \E i \in Tasks : TimerExpires(i)
    \/ \E i \in Tasks : SelectBlocks(i)
    \/ \E i \in Tasks : TimerWakes(i)
    \/ \E i \in Tasks : WaitTimer(i)
    \/ \E i \in Tasks : retry(i)
    \/ \E i \in Tasks : ReleaseDone(i)
    \/ \E i \in Tasks : ReleaseRecv(i)
    \/ WaitCall
    \/ WaitGroupZero
    \/ WaitReturnsNil

\* The same, with the scheduler's guarantee: as long as a caller or a
\* goroutine can take a step, one of them does (a runnable goroutine is run, a
\* started timer expires, every Execute returns).
SpecLive == InitLive /\ [][NextLive]_vars /\ WF_vars(NextLive)

----------------------------------------------------------------------------
\* The functions of the package that touch no manager: New, validate, the
\* three presets, WithRetryConfig and calculateDelay.  Each call is made on
\* arguments of its own and recorded in call.

\* The manager is left as New built it, no task of its batch is run.
RunState == <<pc, calls, timerFired, script, buffer, wg, outputs, errors,
              ctxDone, waitPc, waitSeen, blockedAtCancel, runRet,
              mu, mem, local, reader>>

\* e.RetryConfig of the RetriableError a With... method is called on: nil as
\* &RetriableError{Err: err} leaves it, or what an earlier With... call attached.
Receivers == {NoConfig, WithExponentialBackoff, WithLinearBackoff, WithNoBackoff,
              CustomOnce, CustomTwice}

\* The configurations retry runs with in this model: the presets and the
\* hand-built ones WithRetryConfig attaches.
Attached ==
    {WithExponentialBackoff, WithLinearBackoff, WithNoBackoff, CustomOnce, CustomTwice}
        \cup {c \in Configs : validate(c) = "nil"}

CallNew ==
    /\ call = NoCall
    /\ \E concurrencyLimit \in Ints :
          call' = [fn |-> "New", arg |-> concurrencyLimit, res |-> New(concurrencyLimit)]
    /\ UNCHANGED RunState

CallValidate ==
    /\ call = NoCall
    /\ \E rc \in Configs :
          call' = [fn |-> "validate", arg |-> rc, res |-> validate(rc)]
    /\ UNCHANGED RunState

CallWithRetryConfig ==
    /\ call = NoCall
    /\ \E recv \in Receivers, config \in Configs :
          call' = [fn |-> "WithRetryConfig", recv |-> recv, arg |-> config,
                   res |-> WithRetryConfig(recv, config)]
    /\ UNCHANGED RunState

\* e.WithExponentialBackoff(): attaches the preset and returns e.
CallWithExponentialBackoff ==
    /\ call = NoCall
    /\ \E recv \in Receivers :
          call' = [fn |-> "WithExponentialBackoff", recv |-> recv,
                   res |-> [ret |-> "e", RetryConfig |-> WithExponentialBackoff]]
    /\ UNCHANGED RunState

\* e.WithLinearBackoff(): attaches the preset and returns e.
CallWithLinearBackoff ==
    /\ call = NoCall
    /\ \E recv \in Receivers :
          call' = [fn |-> "WithLinearBackoff", recv |-> recv,
                   res |-> [ret |-> "e", RetryConfig |-> WithLinearBackoff]]
    /\ UNCHANGED RunState

\* e.WithNoBackoff(): attaches the preset and returns e.
CallWithNoBackoff ==
    /\ call = NoCall
    /\ \E recv \in Receivers :
          call' = [fn |-> "WithNoBackoff", recv |-> recv,
                   res |-> [ret |-> "e", RetryConfig |-> WithNoBackoff]]
    /\ UNCHANGED RunState

\* c.calculateDelay(attempt, config) as retry's loop calls it, once per attempt
\* of range config.MaxAttempts; res is the set of delays it can return.
CallCalculateDelay ==
    /\ call = NoCall
    /\ \E config \in Attached :
          \E attempt \in 0..(config.MaxAttempts - 1) :
              call' = [fn |-> "calculateDelay", attempt |-> attempt, arg |-> config,
                       res |-> calculateDelay(attempt, config)]
    /\ UNCHANGED RunState

InitPure ==
    /\ Fresh
    /\ script = [i \in Tasks |-> <<Ok>>]

NextPure ==
    \/ CallNew
    \/ CallValidate
    \/ CallWithRetryConfig
    \/ CallWithExponentialBackoff
    \/ CallWithLinearBackoff
    \/ CallWithNoBackoff
    \/ CallCalculateDelay

\* One call of a function of the package, on each of its arguments.
SpecPure == InitPure /\ [][NextPure]_vars

----------------------------------------------------------------------------
\* The aggregator, statement by statement.  In the specifications above an
\* append under withLock is one step on the sequence of entries; here the
\* mutex, the read of the slice and the store of the appended slice are steps
\* of their own, and a caller reads the results while the tasks run.  The tasks
\* are those that return a value or a plain error.

\* The caller of Outputs() and Errors(), as an execution unit.
Reader == NTasks + 1

\* c.mu.Lock() can return: the variant, a lock that excludes nobody.
MutexFree_NoExclusion == TRUE

MutexFree == mu = {}

Rest == <<timerFired, script, buffer, wg, ctxDone, waitPc, waitSeen,
          blockedAtCancel, runRet, call>>

\* executeTask up to withLock: Execute has returned a value, to be appended to
\* c.outputs, or a plain error, to be appended to c.errors.
ExecuteReturns(i) ==
    /\ pc[i] = "exec"
    /\ LET r == Execute(i, 1) IN
         /\ r.ok \/ ~IsRetriableError(r)
         /\ local' = [local EXCEPT ![i] =
                [field |-> IF r.ok THEN "outputs" ELSE "errors",
                 val |-> IF r.ok THEN <<i, r.val>> ELSE <<i, r.err>>,
                 slice |-> NilSlice]]
    /\ calls' = [calls EXCEPT ![i] = 1]
    /\ pc' = [pc EXCEPT ![i] = "locking"]
    /\ UNCHANGED <<outputs, errors, mu, mem, reader>>
    /\ UNCHANGED Rest

\* withLock: c.mu.Lock()
Lock(i) ==
    /\ pc[i] = "locking"
    /\ MutexFree
    /\ mu' = mu \cup {i}
    /\ pc' = [pc EXCEPT ![i] = "locked"]
    /\ UNCHANGED <<calls, outputs, errors, mem, local, reader>>
    /\ UNCHANGED Rest

\* append(c.outputs, op): the slice is read from the field
LoadSlice(i) ==
    /\ pc[i] = "locked"
    /\ local' = [local EXCEPT ![i].slice = Header(mem[local[i].field])]
    /\ pc' = [pc EXCEPT ![i] = "loaded"]
    /\ UNCHANGED <<calls, outputs, errors, mu, mem, reader>>
    /\ UNCHANGED Rest

\* c.outputs = append(...): the element is written and the field is assigned;
\* outputs and errors are the elements of the two fields.
StoreSlice(i) ==
    /\ pc[i] = "loaded"
    /\ LET f == local[i].field
           m == AppendSlice(local[i].slice, mem[f], local[i].val)
       IN  /\ mem' = [mem EXCEPT ![f] = m]
           /\ outputs' = IF f = "outputs" THEN Elems(Header(m), m) ELSE outputs
           /\ errors' = IF f = "errors" THEN Elems(Header(m), m) ELSE errors
    /\ pc' = [pc EXCEPT ![i] = "stored"]
    /\ UNCHANGED <<calls, mu, local, reader>>
    /\ UNCHANGED Rest

\* withLock: the deferred c.mu.Unlock(); executeTask returns.
Unlock(i) ==
    /\ pc[i] = "stored"
    /\ mu' = mu \ {i}
    /\ pc' = [pc EXCEPT ![i] = "finish"]
    /\ UNCHANGED <<calls, outputs, errors, mem, local, reader>>
    /\ UNCHANGED Rest

\* Outputs() is called.
CallOutputs ==
    /\ reader.pc = "idle"
    /\ reader' = [reader EXCEPT !.pc = "locking", !.field = "outputs"]
    /\ UNCHANGED <<pc, calls, outputs, errors, mu, mem, local>>
    /\ UNCHANGED Rest

\* Errors() is called.
CallErrors ==
    /\ reader.pc = "idle"
    /\ reader' = [reader EXCEPT !.pc = "locking", !.field = "errors"]
    /\ UNCHANGED <<pc, calls, outputs, errors, mu, mem, local>>
    /\ UNCHANGED Rest

\* withLock in Outputs / Errors: c.mu.Lock()
ReaderLock ==
    /\ reader.pc = "locking"
    /\ MutexFree
    /\ mu' = mu \cup {Reader}
    /\ reader' = [reader EXCEPT !.pc = "locked"]
    /\ UNCHANGED <<pc, calls, outputs, errors, mem, local>>
    /\ UNCHANGED Rest

\* result = c.outputs (or c.errors): the slice itself, no copy of its elements
ReaderLoad ==
    /\ reader.pc = "locked"
    /\ reader' = [reader EXCEPT !.pc = "loaded", !.of = reader.field,
                                !.slice = Header(mem[reader.field])]
    /\ UNCHANGED <<pc, calls, outputs, errors, mu, mem, local>>
    /\ UNCHANGED Rest

\* The deferred c.mu.Unlock(), and the return of result to the caller.
ReaderUnlock ==
    /\ reader.pc = "loaded"
    /\ mu' = mu \ {Reader}
    /\ reader' = [reader EXCEPT !.pc = "idle"]
    /\ UNCHANGED <<pc, calls, outputs, errors, mem, local>>
    /\ UNCHANGED Rest

InitAggregator == Fresh /\ Batch(Background)

NextAggregator ==
    \/ \E i \in Tasks : RunSelect(i)
    \/ \E i \in Tasks : ReserveSend(i)
    \/ \E i \in Tasks : ReserveAdd(i)
    \/ \E i \in Tasks : ExecuteReturns(i)
    \/ \E i \in Tasks : Lock(i)
    \/ \E i \in Tasks : LoadSlice(i)
    \/ \E i \in Tasks : StoreSlice(i)
    \/ \E i \in Tasks : Unlock(i)
    \/ \E i \in Tasks : ReleaseDone(i)
    \/ \E i \in Tasks : ReleaseRecv(i)
    \/ CallOutputs
    \/ CallErrors
    \/ ReaderLock
    \/ ReaderLoad
    \/ ReaderUnlock

\* Tasks recording their outcome while a caller reads Outputs and Errors.
SpecAggregator == InitAggregator /\ [][NextAggregator]_vars

----------------------------------------------------------------------------
\* Properties.

\* Task i was admitted and has not yet released its slot.
InFlight(i) == pc[i] \in {"exec", "wait", "parked", "retry", "finish", "releasing"}

\* Number of entries task i has put in a sequence of <<task, x>> entries.
Count(seq, i) == Cardinality({k \in 1..Len(seq) : seq[k][1] = i})

\* Task i has put exactly the entry <<i, x>> in seq, once.
OnlyEntry(seq, i, x) ==
    /\ Count(seq, i) = 1
    /\ \E k \in 1..Len(seq) : seq[k] = <<i, x>>

\* Wait was called after every Run call had returned nil, and has returned nil.
DrainedAll == waitPc = "nil" /\ waitSeen = Tasks

\* C1: at most Limit admitted tasks hold a slot (inside Execute, between retries
\* or about to release) in every reachable state, whatever the interleaving of
\* the Run calls; a further task stays in reserveOne and has not called Execute.
C1_BoundedConcurrency ==
    /\ Cardinality({i \in Tasks : InFlight(i)}) <= Limit
    /\ buffer <= Limit
    /\ \A i \in Tasks : calls[i] > 0 => Admitted(i)

\* Limit tasks are in flight and one more Run call is blocked in reserveOne.
C1_Witness ==
    /\ Cardinality({i \in Tasks : InFlight(i)}) = Limit
    /\ \E i \in Tasks : pc[i] = "reserving"

\* C2: a Run call that waits for a slot when the context is cancelled returns
\* even if no task in flight ever releases its slot: the call can always take a
\* step of its own.  Its only step in reserveOne is the send on c.buffer.
C2_BlockedRunReturns ==
    \A i \in Tasks : (pc[i] = "reserving" /\ ctxDone) => ENABLED ReserveSend(i)

\* C3: a Run call made with the context already cancelled returns the
\* cancellation error; it changes neither the buffer, the wait group, the
\* outputs nor the errors, and the task's Execute is never called.
C3_RunAfterCancelRejected ==
    [][\A i \in Tasks :
          /\ (pc[i] = "idle" /\ ctxDone /\ pc'[i] # "idle") =>
                /\ pc'[i] = "rejected"
                /\ UNCHANGED <<buffer, wg, outputs, errors, calls>>
          /\ pc[i] = "rejected" =>
                /\ pc'[i] = "rejected"
                /\ calls'[i] = 0
                /\ Count(outputs', i) = 0
                /\ Count(errors', i) = 0]_vars

\* Two Run calls were rejected after cancellation, while an earlier task has
\* recorded its output.
C3_Witness ==
    /\ ctxDone
    /\ Cardinality({i \in Tasks : pc[i] = "rejected"}) >= 2
    /\ Len(outputs) + Len(errors) >= 1

\* C4: a Run call that is blocked on a full buffer when the context is cancelled
\* never reserves a slot and its task never runs.
C4_BlockedRunNeverAdmitted ==
    \A i \in blockedAtCancel : ~HoldsSlot(i) /\ calls[i] = 0

\* C5: when every task always succeeds, once the Run calls have returned nil and
\* Wait, called after them, has returned nil, Outputs holds exactly one entry per
\* task, its result, and Errors is empty.
C5_AllSucceed ==
    (DrainedAll /\ \A i \in Tasks : script[i] = <<Ok>>) =>
        /\ Len(outputs) = NTasks
        /\ \A i \in Tasks : OnlyEntry(outputs, i, Value(i))
        /\ errors = <<>>

C5_Witness == DrainedAll /\ \A i \in Tasks : script[i] = <<Ok>>

\* C6: a task whose Execute fails with a plain error is executed once; after
\* Wait has returned nil, Errors holds exactly one entry of the task, the error
\* it returned, and Outputs holds none.
C6_PlainErrors ==
    \A i \in Tasks : script[i] = <<Plain>> =>
        /\ calls[i] <= 1
        /\ DrainedAll =>
              /\ calls[i] = 1
              /\ OnlyEntry(errors, i, TaskErr(i, 1))
              /\ Count(outputs, i) = 0

C6_Witness == DrainedAll /\ \A i \in Tasks : script[i] = <<Plain>>

\* C7: a task whose first Execute returns a RetriableError without RetryConfig
\* is not retried, and ends with exactly one entry in Errors.
C7_NilConfigRecorded ==
    \A i \in Tasks : (script[i] = <<Retriable(NoConfig)>> /\ Terminal(i)) =>
        /\ calls[i] = 1
        /\ Count(errors, i) = 1

\* C8 as stated: under the no-backoff preset a task that always fails, the
\* context never cancelled, ends after 3 Execute calls with one error, no output.
C8_ThreeCallsInTotal ==
    \A i \in Tasks :
        (script[i] = <<Retriable(WithNoBackoff)>> /\ Terminal(i) /\ ~ctxDone) =>
            /\ calls[i] = 3
            /\ Count(errors, i) = 1
            /\ Count(outputs, i) = 0

\* C8 amended: such a task ends after 4 Execute calls, the initial one and
\* MaxAttempts = 3 retries, with one error and no output.
C8_FourCallsInTotal ==
    \A i \in Tasks :
        (script[i] = <<Retriable(WithNoBackoff)>> /\ ~ctxDone) =>
            /\ calls[i] <= 4
            /\ Terminal(i) =>
                  /\ calls[i] = 4
                  /\ Count(errors, i) = 1
                  /\ Count(outputs, i) = 0

C8_Witness ==
    \E i \in Tasks :
        script[i] = <<Retriable(WithNoBackoff)>> /\ Terminal(i) /\ ~ctxDone

\* The scripts that fail with a RetriableError of one config at every call.
AlwaysFails(i) ==
    /\ Len(script[i]) = 1
    /\ script[i][1].kind = "retriable"
    /\ ~script[i][1].cfg.nil

\* C9: a task that always fails with a RetriableError of a config with
\* MaxAttempts = m, the context never cancelled, is re-executed exactly m times
\* after the initial attempt, then has one entry in Errors and none in Outputs.
C9_MaxAttemptsRetries ==
    \A i \in Tasks : (AlwaysFails(i) /\ ~ctxDone) =>
        LET m == script[i][1].cfg.MaxAttempts IN
        /\ calls[i] <= m + 1
        /\ pc[i] \in {"wait", "parked", "retry"} => calls[i] <= m
        /\ Terminal(i) =>
              /\ calls[i] = m + 1
              /\ Count(errors, i) = 1
              /\ Count(outputs, i) = 0

\* A task of MaxAttempts 2 has ended its chain after 3 calls.
C9_Witness ==
    \E i \in Tasks :
        /\ AlwaysFails(i) /\ Terminal(i) /\ ~ctxDone
        /\ script[i][1].cfg.MaxAttempts = 2
        /\ calls[i] = 3

\* The scripts that fail k times with a RetriableError of one config, k within
\* its MaxAttempts, and then succeed.
FailsThenSucceeds(i, k) ==
    /\ Len(script[i]) = k + 1
    /\ k >= 1
    /\ script[i][k + 1] = Ok
    /\ ~script[i][1].cfg.nil
    /\ \A n \in 1..k : script[i][n] = Retriable(script[i][1].cfg)
    /\ k <= script[i][1].cfg.MaxAttempts

\* C10: a task that fails k times with a RetriableError and succeeds at call
\* k + 1, the context never cancelled, ends with exactly one output, its result,
\* and no error, and Execute is not called after the success.
C10_SucceedsAfterRetries ==
    \A i \in Tasks : LET k == Len(script[i]) - 1 IN
      (FailsThenSucceeds(i, k) /\ ~ctxDone) =>
        /\ calls[i] <= k + 1
        /\ Count(errors, i) = 0
        /\ Terminal(i) =>
              /\ calls[i] = k + 1
              /\ OnlyEntry(outputs, i, Value(i))

\* A task has succeeded at its last allowed retry (k = MaxAttempts = 3).
C10_Witness ==
    \E i \in Tasks :
        /\ FailsThenSucceeds(i, 3) /\ Terminal(i) /\ ~ctxDone
        /\ Len(outputs) >= 2

\* The retry chain of task i was ended by the context: ctx.Err() is among its
\* errors (the task itself never returns it).
AbortedByCancel(i) ==
    /\ script[i] # <<CtxAware>>
    /\ \E k \in 1..Len(errors) : errors[k] = <<i, CtxErr>>

\* Entries task i has put in Outputs and Errors together.
Entries(i) == Count(outputs, i) + Count(errors, i)

C12_WaitNilOutcomesVisible ==
    waitPc = "nil" => \A i \in waitSeen : Terminal(i) /\ Entries(i) = 1

\* C13: while admitted tasks are outstanding Wait can return the cancellation
\* error at once; after it has, each of these tasks can still take its steps,
\* and when it is done its outcome is in Outputs or in Errors and its slot free.
C13_WaitCancelLeavesTasksRunning ==
    /\ waitPc \in {"waiting", "closed"} => ENABLED WaitReturnsErr
    /\ waitPc = "err" => \A i \in waitSeen :
          /\ InFlight(i) => ENABLED Goroutine(i)
          /\ pc[i] = "done" => Entries(i) = 1

\* C14: a Run call returns nil exactly when its task is admitted and the
\* context's error exactly when it is not; whatever Execute returns, also the
\* cancellation recorded by a retry chain, is found in Errors only.
C14_RunReturnsDispatchOnly ==
    \A i \in Tasks :
        /\ runRet[i] \in {NotReturned, NilError, CtxErr}
        /\ runRet[i] = NilError <=> Admitted(i)
        /\ runRet[i] = CtxErr <=> pc[i] = "rejected"
        /\ runRet[i] = CtxErr => ctxDone /\ Entries(i) = 0
        /\ Count(errors, i) > 0 => runRet[i] = NilError

\* One task has failed after its Run returned nil, the chain of another was
\* ended by the context, and a third Run call was refused.
C14_Witness ==
    /\ \E i \in Tasks : runRet[i] = NilError /\ Count(errors, i) = 1 /\ ~AbortedByCancel(i)
    /\ \E i \in Tasks : runRet[i] = NilError /\ AbortedByCancel(i)
    /\ \E i \in Tasks : runRet[i] = CtxErr

----------------------------------------------------------------------------
\* Construction and retry configuration.

\* C15: New returns an error and no manager for every concurrencyLimit below 2
\* (1, 0 and the negative values), and a manager with a nil error for every
\* concurrencyLimit of 2 or more.
C15_NewRejectsBelowTwo ==
    call.fn = "New" =>
        IF call.arg < 2
        THEN call.res.mgr = "nil" /\ call.res.err # "nil"
        ELSE call.res.mgr # "nil" /\ call.res.err = "nil"

\* New(1) has returned an error.
C15_Witness == call.fn = "New" /\ call.arg = 1 /\ call.res.err # "nil"

\* One of the six validation rules of RetryConfig rejects rc.
ViolatesARule(rc) ==
    \/ rc.MaxAttempts <= 0
    \/ rc.InitialDelay < 0
    \/ rc.MaxDelay < 0
    \/ rc.MaxDelay > 0 /\ rc.InitialDelay > rc.MaxDelay
    \/ rc.BackoffFactor < 0
    \/ rc.BackoffFactor = 0 /\ rc.InitialDelay > 0 /\ rc.MaxAttempts > 1

\* C16: validate returns an error exactly when MaxAttempts <= 0, or
\* InitialDelay < 0, or MaxDelay < 0, or MaxDelay > 0 with InitialDelay above
\* it, or BackoffFactor < 0, or BackoffFactor = 0 with InitialDelay > 0 and
\* MaxAttempts > 1; a zero BackoffFactor passes when InitialDelay = 0 or
\* MaxAttempts = 1.
C16_ValidateRules ==
    call.fn = "validate" =>
        /\ call.res # "nil" <=> ViolatesARule(call.arg)
        /\ ( /\ call.arg.BackoffFactor = 0
             /\ call.arg.MaxAttempts > 0
             /\ call.arg.InitialDelay >= 0
             /\ call.arg.MaxDelay >= 0
             /\ call.arg.MaxDelay > 0 => call.arg.InitialDelay <= call.arg.MaxDelay
             /\ call.arg.InitialDelay = 0 \/ call.arg.MaxAttempts = 1 )
           => call.res = "nil"

\* validate has rejected a zero factor with a delay and two attempts.
C16_Witness ==
    /\ call.fn = "validate"
    /\ call.arg.BackoffFactor = 0
    /\ call.arg.InitialDelay = 1
    /\ call.arg.MaxAttempts = 2
    /\ call.arg.MaxDelay = 0
    /\ call.res # "nil"

\* C17: WithRetryConfig with a configuration that violates a rule returns a nil
\* RetriableError and the validation error and leaves the receiver's RetryConfig
\* as it was; with a valid one it returns the receiver and a nil error, the
\* receiver's RetryConfig being the configuration handed in, field for field.
C17_AttachesOnlyValidated ==
    call.fn = "WithRetryConfig" =>
        IF ViolatesARule(call.arg)
        THEN /\ call.res.ret = "nil"
             /\ call.res.err # "nil"
             /\ call.res.RetryConfig = call.recv
        ELSE /\ call.res.ret = "e"
             /\ call.res.err = "nil"
             /\ call.res.RetryConfig = call.arg

\* WithRetryConfig was called with MaxAttempts = 0 on an error that had the
\* linear preset attached, and the preset is still attached.
C17_Witness ==
    /\ call.fn = "WithRetryConfig"
    /\ call.arg.MaxAttempts = 0
    /\ call.recv = WithLinearBackoff
    /\ call.res.RetryConfig = WithLinearBackoff
    /\ call.res.ret = "nil"

\* C18: the presets attach the documented values: exponential 5 attempts,
\* 100 ms, factor 2, cap 5000 ms, jitter; linear 5, 200 ms, 1, 2000 ms, no
\* jitter; none 3, 0 ms, 0, 0 ms, no jitter; and each of these passes every
\* validation rule.
C18_PresetValues ==
    /\ call.fn = "WithExponentialBackoff" =>
          call.res.RetryConfig = [MaxAttempts |-> 5, InitialDelay |-> 100, BackoffFactor |-> 2,
                                  MaxDelay |-> 5000, Jitter |-> TRUE, nil |-> FALSE]
    /\ call.fn = "WithLinearBackoff" =>
          call.res.RetryConfig = [MaxAttempts |-> 5, InitialDelay |-> 200, BackoffFactor |-> 1,
                                  MaxDelay |-> 2000, Jitter |-> FALSE, nil |-> FALSE]
    /\ call.fn = "WithNoBackoff" =>
          call.res.RetryConfig = [MaxAttempts |-> 3, InitialDelay |-> 0, BackoffFactor |-> 0,
                                  MaxDelay |-> 0, Jitter |-> FALSE, nil |-> FALSE]
    /\ call.fn \in {"WithExponentialBackoff", "WithLinearBackoff", "WithNoBackoff"} =>
          /\ ~ViolatesARule(call.res.RetryConfig)
          /\ validate(call.res.RetryConfig) = "nil"
          /\ call.res.ret = "e"

\* WithNoBackoff was called on an error that had another configuration.
C18_Witness ==
    /\ call.fn = "WithNoBackoff"
    /\ call.recv = WithExponentialBackoff
    /\ call.res.RetryConfig.BackoffFactor = 0

\* InitialDelay * BackoffFactor^a, capped at MaxDelay only when MaxDelay > 0.
DocumentedDelay(a, rc) ==
    LET delay == rc.InitialDelay * Pow(rc.BackoffFactor, a)
    IN  IF rc.MaxDelay > 0 /\ delay > rc.MaxDelay THEN rc.MaxDelay ELSE delay

\* C19: for a validated configuration without jitter and an attempt a below
\* MaxAttempts, the delay before retry a is InitialDelay * BackoffFactor^a,
\* capped at MaxDelay only when MaxDelay > 0: with MaxDelay = 0 it is not capped.
C19_DelayFormula ==
    (call.fn = "calculateDelay" /\ ~call.arg.Jitter /\ ~ViolatesARule(call.arg)) =>
        call.res = {DocumentedDelay(call.attempt, call.arg)}

----------------------------------------------------------------------------
\* Results, cancellation and the retry chain.

\* s is a prefix of t.
IsPrefix(s, t) == s = t \/ (Len(s) <= Len(t) /\ SubSeq(t, 1, Len(s)) = s)

\* C22: Outputs and Errors only grow: in every step the old value of each is a
\* prefix of the new one, and a new entry is put at the end by the task that
\* reaches its terminal outcome in that step: the order is that of completion,
\* not that of submission.
C22_SequencesOnlyGrow ==
    [][/\ IsPrefix(outputs, outputs')
       /\ IsPrefix(errors, errors')
       /\ outputs' = outputs \/ errors' = errors
       /\ outputs' # outputs =>
             \E i \in Tasks : /\ ~Terminal(i)
                               /\ pc'[i] = "finish"
                               /\ outputs' = Append(outputs, <<i, Value(i)>>)
       /\ errors' # errors =>
             \E i \in Tasks : /\ ~Terminal(i)
                               /\ pc'[i] = "finish"
                               /\ Len(errors') = Len(errors) + 1
                               /\ errors'[Len(errors')][1] = i]_vars

\* A task admitted after Wait was called has its error before the error of a
\* task that was admitted when Wait was called.
C22_Witness ==
    /\ waitPc = "waiting"
    /\ \E i \in waitSeen, j \in Tasks \ waitSeen :
          \E k, l \in 1..Len(errors) : k < l /\ errors[k][1] = j /\ errors[l][1] = i

\* C23: cancellation is cooperative.  The signal itself changes no task that is
\* inside Execute and no recorded result; such a task can still return, and
\* what it returns is recorded as without the signal: a value in Outputs, the
\* cancellation error it returns itself, or a plain error, in Errors.
C23_CancelIsCooperative ==
    [][/\ (~ctxDone /\ ctxDone') => UNCHANGED <<pc, calls, outputs, errors>>
       /\ \A i \in Tasks :
             /\ (ctxDone /\ pc[i] = "exec") => ENABLED executeTask(i)
             /\ (ctxDone /\ pc[i] = "retry") => ENABLED retry(i)
             /\ (ctxDone /\ pc[i] \in {"exec", "retry"} /\ pc'[i] # pc[i]) =>
                   LET n == calls[i] + 1 IN
                   /\ calls'[i] = n
                   /\ Outcome(i, n).kind = "ok" =>
                         /\ outputs' = Append(outputs, <<i, Value(i)>>)
                         /\ errors' = errors
                         /\ pc'[i] = "finish"
                   /\ Outcome(i, n).kind = "ctxaware" =>
                         /\ outputs' = outputs
                         /\ pc[i] = "exec" => /\ errors' = Append(errors, <<i, CtxErr>>)
                                              /\ pc'[i] = "finish"
                   /\ (Outcome(i, n).kind = "plain" /\ pc[i] = "exec") =>
                         /\ outputs' = outputs
                         /\ errors' = Append(errors, <<i, TaskErr(i, n)>>)
                         /\ pc'[i] = "finish"]_vars

\* A task that watches the context has returned the cancellation error from its
\* only Execute; it is in Errors, and an earlier output is still there.
C23_Witness ==
    /\ ctxDone
    /\ \E i \in Tasks : /\ script[i] = <<CtxAware>>
                         /\ calls[i] = 1
                         /\ OnlyEntry(errors, i, CtxErr)
    /\ Len(outputs) >= 1

\* C24: a plain error returned by any Execute of a task, the first or one of
\* a retry chain, is terminal: it is recorded in Errors and the task is not
\* executed again.
C24_PlainErrorTerminal ==
    \A i \in Tasks : \A n \in 1..calls[i] :
        Outcome(i, n).kind = "plain" =>
            /\ calls[i] = n
            /\ Terminal(i)
            /\ OnlyEntry(errors, i, TaskErr(i, n))

\* Task i fails at its first call with a RetriableError, and at the later ones
\* with another error: a plain one, or a RetriableError of another config.
ChangesError(i) ==
    /\ Len(script[i]) = 2
    /\ script[i][1].kind = "retriable"
    /\ ~script[i][1].cfg.nil
    /\ script[i][2].kind \in {"plain", "retriable"}
    /\ script[i][2] # script[i][1]

\* C25: the config of the first failure governs the whole chain.  When the
\* retries fail with another error, the chain still makes MaxAttempts retries
\* of the first config, and every wait has a delay of the first config.
C25_FirstPolicyGoverns ==
    [][\A i \in Tasks : (ChangesError(i) /\ ~ctxDone') =>
          LET first == script[i][1].cfg IN
          /\ calls'[i] <= first.MaxAttempts + 1
          /\ pc'[i] \in {"finish", "releasing", "done"} =>
                /\ calls'[i] = first.MaxAttempts + 1
                /\ Count(errors', i) = 1
          /\ (pc[i] \in {"exec", "retry"} /\ pc'[i] = "wait") =>
                \E d \in calculateDelay(calls[i], first) : timerFired'[i] = (d = 0)]_vars

\* A chain whose retries failed with the no-backoff preset's error has ended
\* after the two retries of its first config.
C25_Witness ==
    \E i \in Tasks :
        /\ script[i] = <<Retriable(CustomTwice), Retriable(WithNoBackoff)>>
        /\ Terminal(i) /\ ~ctxDone
        /\ calls[i] = 3

\* C26: when a retry chain uses up its attempts without success, the one
\* error recorded for the task is the error of the last Execute made.
C26_LastErrorRecorded ==
    \A i \in Tasks :
        (/\ AlwaysFails(i) \/ ChangesError(i)
         /\ Terminal(i)
         /\ ~ctxDone) =>
            /\ calls[i] = script[i][1].cfg.MaxAttempts + 1
            /\ OnlyEntry(errors, i, TaskErr(i, calls[i]))

\* The error of the third call is what a chain of two retries has recorded.
C26_Witness ==
    \E i \in Tasks :
        /\ AlwaysFails(i) /\ Terminal(i) /\ ~ctxDone
        /\ OnlyEntry(errors, i, TaskErr(i, 3))

\* C27: an admitted task reserves its slot once and releases it once: the
\* buffer holds one item per task between its send and its receive, an admitted
\* task never goes back to reserving, the slot is given up only by the receive
\* of releaseOne, and releaseOne runs only once the task's outcome is recorded.
C27_SlotHeldOnce ==
    [][/\ buffer' = Cardinality({i \in Tasks : pc'[i] \in
                        {"adding", "exec", "wait", "parked", "retry", "finish", "releasing"}})
       /\ \A i \in Tasks :
             /\ Admitted(i) => pc'[i] \notin {"idle", "reserving", "adding", "rejected"}
             /\ (HoldsSlot(i) /\ pc'[i] \notin {"adding", "exec", "wait", "parked",
                                                 "retry", "finish", "releasing"}) =>
                   /\ pc[i] = "releasing"
                   /\ pc'[i] = "done"
                   /\ buffer' = buffer - 1
             /\ pc'[i] \in {"releasing", "done"} =>
                   Count(outputs', i) + Count(errors', i) = 1]_vars

\* C28: once the context is cancelled, a chain that is in its wait under the
\* no-backoff preset (delay zero, the timer expired when the wait begins) makes
\* no further Execute: its next step records the cancellation error.
C28_NoRetryAfterCancel ==
    [][\A i \in Tasks :
          (/\ LoopConfig(i) = WithNoBackoff
           /\ ctxDone
           /\ pc[i] \in {"wait", "parked"}
           /\ pc'[i] # pc[i]) =>
              /\ pc'[i] = "finish"
              /\ calls'[i] = calls[i]
              /\ errors' = Append(errors, <<i, CtxErr>>)]_vars

\* C29: reserving a slot and counting the task in the wait group are one step
\* for Wait: when c.wg.Wait() returns in Wait, no task holds a slot without
\* having reached its terminal outcome.
C29_ReserveAtomicForWait ==
    [][(waitPc = "waiting" /\ waitPc' = "closed") =>
          \A i \in Tasks : HoldsSlot(i) => Terminal(i)]_vars

----------------------------------------------------------------------------
\* The aggregator's slices and mutex.

\* What the caller sees in the slice it was returned last.
Seen(m) == Elems(reader.slice, m[reader.of])

\* C21: a slice returned by Outputs() or Errors() is a stable snapshot: as
\* long as the caller holds it, no step of a task changes its length or the
\* elements the caller sees in it.
C21_SnapshotStable ==
    [][(reader'.slice = reader.slice /\ reader'.of = reader.of) =>
          Seen(mem') = Seen(mem)]_vars

\* The caller holds a slice of one output, and a task has since appended
\* another output in the same backing array.
C21_Witness ==
    /\ reader.pc = "idle"
    /\ reader.of = "outputs"
    /\ reader.slice.len = 1
    /\ reader.slice.arr = mem.outputs.arr
    /\ mem.outputs.len = 2

\* Unit u is between c.mu.Lock() and c.mu.Unlock().
InCritical(u) ==
    IF u = Reader THEN reader.pc \in {"locked", "loaded"}
    ELSE pc[u] \in {"locked", "loaded", "stored"}

\* C30: appends and reads are made under the mutex: at most one unit, task or
\* reader, is in the critical section; the fields are stored and read only by
\* the unit that holds the mutex; and no entry is lost: every task that has
\* left the critical section has its one entry in the field it appended to.
C30_AggregatorUnderMutex ==
    [][/\ Cardinality({u \in Tasks \cup {Reader} : InCritical(u)}) <= 1
       /\ mem' # mem => \E i \in Tasks : InCritical(i) /\ mu = {i}
       /\ (reader'.slice # reader.slice \/ reader'.of # reader.of) =>
             (InCritical(Reader) /\ mu = {Reader})
       /\ outputs' = Elems(Header(mem'.outputs), mem'.outputs)
       /\ errors' = Elems(Header(mem'.errors), mem'.errors)
       /\ \A i \in Tasks : pc'[i] \in {"finish", "releasing", "done"} =>
             /\ Count(outputs', i) + Count(errors', i) = 1
             /\ local[i].field = "outputs" => OnlyEntry(outputs', i, Value(i))
       /\ Len(outputs') + Len(errors') =
             Cardinality({i \in Tasks : pc'[i] \in {"stored", "finish", "releasing", "done"}})]_vars

\* One task is appending while another task and the reader wait for the mutex.
C30_Witness ==
    /\ \E i, j \in Tasks : pc[i] = "loaded" /\ pc[j] = "locking"
    /\ reader.pc = "locking"

----------------------------------------------------------------------------
\* Delays, progress and counters.

C32_EventualProgress ==
    /\ <>[](/\ \A i \in Tasks : runRet[i] = NilError /\ pc[i] = "done"
            /\ buffer = 0
            /\ wg = 0)
    /\ (waitPc = "waiting" /\ waitSeen = Tasks) ~> (waitPc = "nil")

\* All tasks have released their slots, one of them after three retries, and
\* Wait, called after the last Run, has returned nil.
C32_Witness ==
    /\ DrainedAll
    /\ \A i \in Tasks : pc[i] = "done"
    /\ \E i \in Tasks : calls[i] = 4
    /\ buffer = 0

\* C33: no task has more than one entry in Outputs and Errors together, and
\* the two hold no more entries than there are admitted tasks.
C33_AtMostOneEntry ==
    /\ \A i \in Tasks :
          /\ Entries(i) <= 1
          /\ Entries(i) = 1 => Admitted(i)
    /\ Len(outputs) + Len(errors) <= Cardinality({i \in Tasks : Admitted(i)})

\* A task has its one entry after three Execute calls, and every task has one.
C33_Witness ==
    /\ \E i \in Tasks : calls[i] = 3 /\ Entries(i) = 1
    /\ Len(outputs) + Len(errors) = NTasks

\* C34: 0 <= the wait group's counter <= the items in c.buffer <= the limit:
\* the counter counts a task only between its send on and its receive from
\* c.buffer.
C34_CounterWithinSlots ==
    /\ 0 <= wg
    /\ wg <= buffer
    /\ buffer <= Limit
    /\ wg = Cardinality({i \in Tasks : pc[i] \in {"exec", "wait", "parked", "retry", "finish"}})
    /\ \A i \in Tasks : pc[i] \in {"exec", "wait", "parked", "retry", "finish"} => HoldsSlot(i)

\* The buffer is full, and one of the slots is held by a Run call that has not
\* yet incremented the counter.
C34_Witness ==
    /\ buffer = Limit
    /\ wg = Limit - 1
    /\ \E i \in Tasks : pc[i] = "adding"

====
